---------------------------- MODULE Spec2Model ----------------------------
(***************************************************************************)
(* ShamirSecretSolver (src/main.cpp): decoding of share values written in  *)
(* a positional base, modular exponentiation, Lagrange interpolation at    *)
(* x = 0 modulo a prime, and main's loop over the case files.              *)
(*                                                                         *)
(* Each function of the source is a small state machine held in a record   *)
(* of its locals (dec: decodeBaseString, lag: lagrangeInterpolation with   *)
(* the inlined modPow call, run: main).  A step operator maps the record   *)
(* before a step of the code to the record after it; the actions apply the *)
(* step operators, and a whole call is the iteration of the same steps.    *)
(***************************************************************************)
EXTENDS Integers, Sequences, FiniteSets, TLC

VARIABLES dec, lag, run
vars == <<dec, lag, run>>

---------------------------------------------------------------------------
(* Bounds of the model.                                                    *)

MaxLen == 3
MaxPoints == 2
MaxX == 6
MaxY == 3
MaxFiles == 3
MaxPermX == 5
MaxPermY == 1
MaxPermPoints == 3
MaxBigPoints == 3
MaxCoef == 4

---------------------------------------------------------------------------
(* Arithmetic of the C++ types.                                            *)
(*                                                                         *)
(* long long values that the code stores are kept as integers; a product   *)
(* of two of them is formed exactly, as a sign and a magnitude written in  *)
(* limbs of four decimal digits (least significant first, no leading zero  *)
(* limb), so that it can be compared with 2^63 before it is reduced.       *)

Limb == 100 * 100

Abs(a) == IF a < 0 THEN -a ELSE a

\* C++ a % m on long long, m > 0: the quotient truncates toward zero, so the
\* remainder takes the sign of a.
CRem(a, m) == IF a >= 0 THEN a % m ELSE -((-a) % m)

RECURSIVE ToLimbs(_)
ToLimbs(n) == IF n < Limb THEN <<n>> ELSE <<n % Limb>> \o ToLimbs(n \div Limb)

RECURSIVE StripZeros(_)
StripZeros(A) ==
    IF Len(A) > 1 /\ A[Len(A)] = 0 THEN StripZeros(SubSeq(A, 1, Len(A) - 1)) ELSE A

RECURSIVE ConvSum(_, _, _, _)
\* Sum of A[i] * B[k + 1 - i] over the i from `i` on: column k of the product.
ConvSum(A, B, k, i) ==
    IF i > Len(A) \/ i > k THEN 0
    ELSE (IF k + 1 - i <= Len(B) THEN A[i] * B[k + 1 - i] ELSE 0) + ConvSum(A, B, k, i + 1)

RECURSIVE CarryCols(_, _, _, _)
CarryCols(A, B, k, carry) ==
    IF k > Len(A) + Len(B) THEN <<>>
    ELSE LET col == ConvSum(A, B, k, 1) + carry
         IN  <<col % Limb>> \o CarryCols(A, B, k + 1, col \div Limb)

LimbMul(A, B) == StripZeros(CarryCols(A, B, 1, 0))

RECURSIVE LimbLessFrom(_, _, _)
LimbLessFrom(A, B, n) ==
    IF n = 0 THEN FALSE
    ELSE IF A[n] # B[n] THEN A[n] < B[n]
    ELSE LimbLessFrom(A, B, n - 1)

LimbLess(A, B) ==
    IF Len(A) # Len(B) THEN Len(A) < Len(B) ELSE LimbLessFrom(A, B, Len(A))

RECURSIVE TimesMod(_, _, _)
\* (r * c) mod m for 0 <= r < m by doubling, every sum below 2 * m.
TimesMod(r, c, m) ==
    IF c = 0 \/ r = 0 THEN 0
    ELSE LET h == TimesMod(r, c \div 2, m)
             d == (h + h) % m
         IN  IF c % 2 = 1 THEN (d + r) % m ELSE d

RECURSIVE LimbRemFrom(_, _, _, _)
LimbRemFrom(A, n, r, m) ==
    IF n = 0 THEN r
    ELSE LimbRemFrom(A, n - 1, (TimesMod(r, Limb, m) + (A[n] % m)) % m, m)

\* The magnitude's remainder modulo m.
LimbRem(A, m) ==
    IF Len(A) = 1 THEN A[1] % m
    ELSE IF Len(A) = 2 THEN (A[2] * Limb + A[1]) % m
    ELSE LimbRemFrom(A, Len(A), 0, m)

\* 2^63 = 9223372036854775808, the first magnitude a long long cannot hold.
TwoPow63 == <<5808, 5477, 368, 3372, 922>>

\* The exact value of a long long expression, before any reduction.
WideOf(a) == [neg |-> a < 0, mag |-> ToLimbs(Abs(a))]

\* a * b on long long operands, exactly.
LLProd(a, b) ==
    [neg |-> (a < 0) # (b < 0) /\ a # 0 /\ b # 0,
     mag |-> LimbMul(ToLimbs(Abs(a)), ToLimbs(Abs(b)))]

\* w * b for an unreduced product w.
WideTimes(w, b) ==
    [neg |-> w.neg # (b < 0) /\ b # 0 /\ w.mag # <<0>>,
     mag |-> LimbMul(w.mag, ToLimbs(Abs(b)))]

\* Whether the exact value is representable in a signed 64-bit long long.
FitsLL(w) == LimbLess(w.mag, TwoPow63)

\* w % m on long long (m > 0): the remainder with the sign of w.
LLRem(w, m) == IF w.neg THEN -LimbRem(w.mag, m) ELSE LimbRem(w.mag, m)

---------------------------------------------------------------------------
(* decodeBaseString (src/main.cpp:10-19).  Characters are their codes in   *)
(* the execution character set (ASCII).                                    *)

\* isdigit(ch) in the "C" locale: '0' (48) .. '9' (57).
IsDigit(ch) == ch >= 48 /\ ch <= 57

\* tolower(ch) in the "C" locale: 'A' (65) .. 'Z' (90) move to 'a' .. 'z'.
ToLower(ch) == IF ch >= 65 /\ ch <= 90 THEN ch + 32 ELSE ch

\* Lines 13-15: the value the loop body assigns to val.
CharValNoToLower(ch) == IF IsDigit(ch) THEN ch - 48 ELSE ch - 97 + 10

CharVal(ch) == IF IsDigit(ch) THEN ch - 48 ELSE ToLower(ch) - 97 + 10

\* Line 11: the locals on entry.
DecodeEntry(s, base) == [pc |-> "loop", s |-> s, base |-> base, pos |-> 1, result |-> 0]

\* Lines 12-17: one iteration of the range-for over s.
DecodeCharStep(d) ==
    [d EXCEPT !.result = d.result * d.base + CharVal(d.s[d.pos]),
              !.pos = d.pos + 1]

\* Line 18: the loop is exhausted, the function returns result.
DecodeReturnStep(d) == [d EXCEPT !.pc = "done"]

RECURSIVE DecodeRun(_)
DecodeRun(d) ==
    IF d.pc = "done" THEN d
    ELSE IF d.pos <= Len(d.s) THEN DecodeRun(DecodeCharStep(d))
    ELSE DecodeRun(DecodeReturnStep(d))

\* The value of a whole call.
decodeBaseString(s, base) == DecodeRun(DecodeEntry(s, base)).result

---------------------------------------------------------------------------
(* modPow (src/main.cpp:22-31) and lagrangeInterpolation (34-55).  The     *)
(* record holds the locals of lagrangeInterpolation and, while modPow      *)
(* runs, those of modPow (base, exp, result).  i and j count from 0 as in  *)
(* the source; points[i] of the source is points[i + 1] here.  prods holds *)
(* the exact values of the products and of the sum the last step formed.   *)

\* A step whose exact product leaves the range of long long is undefined
\* behaviour (signed overflow): the call ends in "ub", with no result.
Checked(n) ==
    IF \E q \in 1..Len(n.prods) : ~FitsLL(n.prods[q]) THEN [n EXCEPT !.pc = "ub"] ELSE n

\* Lines 35-36 and the initialisation of the outer for.
LagEntry(points, mod) ==
    [pc |-> "outer", points |-> points, mod |-> mod, k |-> Len(points),
     secret |-> 0, i |-> 0, j |-> 0, xi |-> 0, yi |-> 0, num |-> 0, den |-> 0,
     inv |-> 0, term |-> 0, base |-> 0, exp |-> 0, result |-> 0, prods |-> <<>>]

\* Lines 38-43: the outer loop is entered for i.
OuterStepNoReset(L) ==
    [L EXCEPT !.pc = "inner",
              !.xi = L.points[L.i + 1].first,
              !.yi = L.points[L.i + 1].second % L.mod,
              !.num = IF L.i = 0 THEN 1 ELSE L.num,
              !.den = IF L.i = 0 THEN 1 ELSE L.den,
              !.j = 0, !.prods = <<>>]

OuterStep(L) ==
    [L EXCEPT !.pc = "inner",
              !.xi = L.points[L.i + 1].first,
              !.yi = L.points[L.i + 1].second % L.mod,
              !.num = 1, !.den = 1, !.j = 0, !.prods = <<>>]

\* Lines 43-47: one iteration of the inner loop.
InnerStepNoSkip(L) ==
    LET xj == L.points[L.j + 1].first
        pn == LLProd(L.num, L.mod - xj)
        pd == LLProd(L.den, L.xi - xj + L.mod)
    IN  Checked([L EXCEPT !.num = LLRem(pn, L.mod), !.den = LLRem(pd, L.mod),
                          !.j = L.j + 1, !.prods = <<pn, pd>>])

InnerStepNoAddMod(L) ==
    IF L.i = L.j THEN [L EXCEPT !.j = L.j + 1, !.prods = <<>>]
    ELSE LET xj == L.points[L.j + 1].first
             pn == LLProd(L.num, L.mod - xj)
             pd == LLProd(L.den, L.xi - xj)
         IN  Checked([L EXCEPT !.num = LLRem(pn, L.mod), !.den = LLRem(pd, L.mod),
                               !.j = L.j + 1, !.prods = <<pn, pd>>])

InnerStep(L) ==
    IF L.i = L.j THEN [L EXCEPT !.j = L.j + 1, !.prods = <<>>]
    ELSE LET xj == L.points[L.j + 1].first
             pn == LLProd(L.num, L.mod - xj)
             pd == LLProd(L.den, L.xi - xj + L.mod)
         IN  Checked([L EXCEPT !.num = LLRem(pn, L.mod), !.den = LLRem(pd, L.mod),
                               !.j = L.j + 1, !.prods = <<pn, pd>>])

\* Line 49 with lines 23-24: modPow(den, mod - 2, mod) is entered.
ModPowEntryStepExpMinusOne(L) ==
    [L EXCEPT !.pc = "modpow", !.result = 1, !.base = CRem(L.den, L.mod),
              !.exp = L.mod - 1, !.prods = <<>>]

ModPowEntryStep(L) ==
    [L EXCEPT !.pc = "modpow", !.result = 1, !.base = CRem(L.den, L.mod),
              !.exp = L.mod - 2, !.prods = <<>>]

\* Lines 25-29: one iteration of the while loop (exp > 0).
ModPowStepNoSquare(L) ==
    LET pr == LLProd(L.result, L.base)
    IN  Checked([L EXCEPT !.result = IF L.exp % 2 = 1 THEN LLRem(pr, L.mod) ELSE L.result,
                          !.exp = L.exp \div 2,
                          !.prods = IF L.exp % 2 = 1 THEN <<pr>> ELSE <<>>])

ModPowStep(L) ==
    LET pr == LLProd(L.result, L.base)
        pb == LLProd(L.base, L.base)
    IN  Checked([L EXCEPT !.result = IF L.exp % 2 = 1 THEN LLRem(pr, L.mod) ELSE L.result,
                          !.base = LLRem(pb, L.mod),
                          !.exp = L.exp \div 2,
                          !.prods = IF L.exp % 2 = 1 THEN <<pr, pb>> ELSE <<pb>>])

\* Line 30 and the assignment of line 49: modPow returns result into inv.
ModPowReturnStep(L) == [L EXCEPT !.pc = "term", !.inv = L.result, !.prods = <<>>]

\* Lines 50-51 and the i++ of line 38.
TermStepUnreduced(L) ==
    LET p1 == LLProd(L.yi, L.num)
        p2 == WideTimes(p1, L.inv)
        t  == LLRem(p2, L.mod)
    IN  Checked([L EXCEPT !.pc = "outer", !.term = t,
                          !.secret = CRem(L.secret + t, L.mod),
                          !.i = L.i + 1,
                          !.prods = <<p1, p2, WideOf(L.secret + t)>>])

TermStep(L) ==
    LET p1 == LLProd(L.yi, L.num)
        p2 == LLProd(LLRem(p1, L.mod), L.inv)
        t  == LLRem(p2, L.mod)
    IN  Checked([L EXCEPT !.pc = "outer", !.term = t,
                          !.secret = CRem(L.secret + t, L.mod),
                          !.i = L.i + 1,
                          !.prods = <<p1, p2, WideOf(L.secret + t)>>])

\* Line 54.
LagReturnStep(L) == [L EXCEPT !.pc = "done", !.prods = <<>>]

\* The step the code takes next from L.
LagStep(L) ==
    CASE L.pc = "outer" /\ L.i < L.k     -> OuterStep(L)
      [] L.pc = "outer" /\ L.i >= L.k    -> LagReturnStep(L)
      [] L.pc = "inner" /\ L.j < L.k     -> InnerStep(L)
      [] L.pc = "inner" /\ L.j >= L.k    -> ModPowEntryStep(L)
      [] L.pc = "modpow" /\ L.exp > 0    -> ModPowStep(L)
      [] L.pc = "modpow" /\ L.exp <= 0   -> ModPowReturnStep(L)
      [] L.pc = "term"                   -> TermStep(L)
      [] L.pc \in {"done", "ub"}         -> L

RECURSIVE RunLoop(_, _)
\* The steps taken while control stays in the loop at `pc`.
RunLoop(pc, L) == IF L.pc # pc THEN L ELSE RunLoop(pc, LagStep(L))

\* One iteration of the outer loop: lines 38-52.
LagIteration(L) == LagStep(RunLoop("modpow", RunLoop("inner", LagStep(L))))

RECURSIVE LagRun(_)
\* A whole call: the steps from L until the function has returned.
LagRun(L) ==
    IF L.pc \in {"done", "ub"} THEN L
    ELSE IF L.pc = "outer" /\ L.i < L.k THEN LagRun(LagIteration(L))
    ELSE LagRun(LagStep(L))

\* The value a whole call returns.
lagrangeInterpolation(points, mod) == LagRun(LagEntry(points, mod)).secret

Outer ==
    /\ lag.pc = "outer" /\ lag.i < lag.k
    /\ lag' = OuterStep(lag)
    /\ UNCHANGED <<dec, run>>

Inner ==
    /\ lag.pc = "inner" /\ lag.j < lag.k
    /\ lag' = InnerStep(lag)
    /\ UNCHANGED <<dec, run>>

ModPowEntry ==
    /\ lag.pc = "inner" /\ lag.j >= lag.k
    /\ lag' = ModPowEntryStep(lag)
    /\ UNCHANGED <<dec, run>>

ModPowLoop ==
    /\ lag.pc = "modpow" /\ lag.exp > 0
    /\ lag' = ModPowStep(lag)
    /\ UNCHANGED <<dec, run>>

ModPowReturn ==
    /\ lag.pc = "modpow" /\ lag.exp <= 0
    /\ lag' = ModPowReturnStep(lag)
    /\ UNCHANGED <<dec, run>>

Term ==
    /\ lag.pc = "term"
    /\ lag' = TermStep(lag)
    /\ UNCHANGED <<dec, run>>

LagReturn ==
    /\ lag.pc = "outer" /\ lag.i >= lag.k
    /\ lag' = LagReturnStep(lag)
    /\ UNCHANGED <<dec, run>>

NextLagrange ==
    Outer \/ Inner \/ ModPowEntry \/ ModPowLoop \/ ModPowReturn \/ Term \/ LagReturn

---------------------------------------------------------------------------
(* main (src/main.cpp:57-89).  argv holds the file arguments argv[1] ..     *)
(* argv[argc - 1]; a file is what opening and parsing it yields: whether   *)
(* it opens, whether its text is well-formed JSON, keys.k, and the share   *)
(* objects "1", "2", ... it holds, each with its "base" and "value"        *)
(* strings.  out is what was written to cout, err the files reported on    *)
(* cerr.  An exception that leaves main (none is caught) ends the process  *)
(* through std::terminate: pc = "aborted".                                 *)

MOD == 1000000007

\* Whether std::stoi(s) finds a number: s starts with a decimal digit.
\* Without one it throws std::invalid_argument.
StoiParses(s) == Len(s) > 0 /\ IsDigit(s[1])

RECURSIVE StoiFrom(_, _, _)
StoiFrom(s, pos, acc) ==
    IF pos > Len(s) \/ ~IsDigit(s[pos]) THEN acc
    ELSE StoiFrom(s, pos + 1, acc * 10 + (s[pos] - 48))

\* std::stoi(s): the decimal value of the leading digits.
Stoi(s) == StoiFrom(s, 1, 0)

\* Lines 78-79 for share i: j[to_string(i)] of a missing share is null, and
\* the conversion of null to std::string throws json::type_error.
ShareThrows(file, i) ==
    IF i > Len(file.shares) THEN TRUE ELSE ~StoiParses(file.shares[i].base)

RECURSIVE BuildShares(_, _)
\* Lines 76-82: the shares 1 .. i, each decoded and pushed as {i, y}.
BuildShares(file, i) ==
    IF i = 0 THEN <<>>
    ELSE Append(BuildShares(file, i - 1),
                [first |-> i,
                 second |-> decodeBaseString(file.shares[i].value,
                                             Stoi(file.shares[i].base))])

\* Lines 58-63.
MainEntry(argv) ==
    [pc |-> IF Len(argv) + 1 < 2 THEN "exit1" ELSE "loop",
     argv |-> argv, f |-> 1, out |-> <<>>, err |-> <<>>]

\* Lines 66-70: the file does not open; the loop continues.
OpenFailStep(r) == [r EXCEPT !.err = Append(r.err, r.f), !.f = r.f + 1]

\* Line 72: in >> j throws json::parse_error.  Lines 77-79: a share lookup
\* throws.  Neither is caught.
ThrowStep(r) == [r EXCEPT !.pc = "aborted"]

\* Lines 72-85: the case is read, decoded, interpolated and printed.
CaseStep(r) ==
    LET file == r.argv[r.f]
        shares == BuildShares(file, file.k)
        secret == lagrangeInterpolation(shares, MOD)
    IN  [r EXCEPT !.out = Append(r.out, [file |-> r.f, secret |-> secret]),
                  !.f = r.f + 1]

\* Line 88.
ExitStep(r) == [r EXCEPT !.pc = "exit0"]

CaseThrows(file) ==
    IF file.wellformed THEN \E i \in 1..file.k : ShareThrows(file, i) ELSE TRUE

OpenFail ==
    /\ run.pc = "loop" /\ run.f <= Len(run.argv)
    /\ ~run.argv[run.f].opens
    /\ run' = OpenFailStep(run)
    /\ UNCHANGED <<dec, lag>>

CaseAbort ==
    /\ run.pc = "loop" /\ run.f <= Len(run.argv)
    /\ run.argv[run.f].opens
    /\ CaseThrows(run.argv[run.f])
    /\ run' = ThrowStep(run)
    /\ UNCHANGED <<dec, lag>>

Case ==
    /\ run.pc = "loop" /\ run.f <= Len(run.argv)
    /\ run.argv[run.f].opens
    /\ ~CaseThrows(run.argv[run.f])
    /\ run' = CaseStep(run)
    /\ UNCHANGED <<dec, lag>>

Exit ==
    /\ run.pc = "loop" /\ run.f > Len(run.argv)
    /\ run' = ExitStep(run)
    /\ UNCHANGED <<dec, lag>>

NextMain == OpenFail \/ CaseAbort \/ Case \/ Exit

---------------------------------------------------------------------------
(* The specifications.  Each runs one function of the source from every    *)
(* input of a bounded set; the records of the functions that are not       *)
(* running stay idle.                                                      *)

DecIdle == [pc |-> "idle"]
LagIdle == [pc |-> "idle"]
RunIdle == [pc |-> "idle"]

SeqsUpTo(S, n) == UNION {[1..m -> S] : m \in 0..n}

\* The characters the digit strings are drawn from:
\* '0' '1' '9' 'a' 'f' 'F' 'z' 'Z' and '-'.
Chars == {48, 49, 57, 97, 102, 70, 122, 90, 45}
Bases == {2, 10, 16, 36}

DecodeChar ==
    /\ dec.pc = "loop"
    /\ dec.pos <= Len(dec.s)
    /\ dec' = DecodeCharStep(dec)
    /\ UNCHANGED <<lag, run>>

DecodeReturn ==
    /\ dec.pc = "loop"
    /\ dec.pos > Len(dec.s)
    /\ dec' = DecodeReturnStep(dec)
    /\ UNCHANGED <<lag, run>>

InitDecode ==
    /\ \E s \in SeqsUpTo(Chars, MaxLen), base \in Bases : dec = DecodeEntry(s, base)
    /\ lag = LagIdle
    /\ run = RunIdle

NextDecode == DecodeChar \/ DecodeReturn

SpecDecode == InitDecode /\ [][NextDecode]_vars

\* The moduli of the small runs: with them no product leaves the range of
\* long long, and every residue class occurs among the inputs.
Primes == {2, 3, 5}

Points(maxX, maxY) == [first : 1..maxX, second : 0..maxY]

\* The points of the spec's end-to-end scenario, run with the modulus of main.
E2EPoints ==
    <<[first |-> 1, second |-> 4], [first |-> 2, second |-> 7],
      [first |-> 3, second |-> 12]>>

InitLagrange ==
    /\ \/ \E mod \in Primes, points \in SeqsUpTo(Points(MaxX, MaxY), MaxPoints) :
             lag = LagEntry(points, mod)
       \/ lag = LagEntry(E2EPoints, MOD)
    /\ dec = DecIdle
    /\ run = RunIdle

SpecLagrange == InitLagrange /\ [][NextLagrange]_vars

\* The case files of the runs of main.  Strings are sequences of character
\* codes: "10" is <<49, 48>>.
Share(base, value) == [base |-> base, value |-> value]

\* Shares 4, 7, 12 in base 10 at x = 1, 2, 3.
FileE2E ==
    [opens |-> TRUE, wellformed |-> TRUE, k |-> 3,
     shares |-> <<Share(<<49, 48>>, <<52>>), Share(<<49, 48>>, <<55>>),
                  Share(<<49, 48>>, <<49, 50>>)>>]

\* Shares "ff" in base 16 and "111" in base 2.
FileMixed ==
    [opens |-> TRUE, wellformed |-> TRUE, k |-> 2,
     shares |-> <<Share(<<49, 54>>, <<102, 102>>), Share(<<50>>, <<49, 49, 49>>)>>]

\* A path that does not open.
FileAbsent == [opens |-> FALSE, wellformed |-> FALSE, k |-> 0, shares |-> <<>>]

\* A file that is not JSON.
FileMalformed == [opens |-> TRUE, wellformed |-> FALSE, k |-> 0, shares |-> <<>>]

\* k = 3 with the share "3" missing.
FileShort ==
    [opens |-> TRUE, wellformed |-> TRUE, k |-> 3,
     shares |-> <<Share(<<49, 48>>, <<52>>), Share(<<49, 48>>, <<55>>)>>]

Files == {FileE2E, FileMixed, FileAbsent, FileMalformed, FileShort}

Init ==
    /\ \E argv \in SeqsUpTo(Files, MaxFiles) : run = MainEntry(argv)
    /\ dec = DecIdle
    /\ lag = LagIdle

Next == NextMain

Spec == Init /\ [][Next]_vars

\* Longer point sequences over fewer values, with pairwise distinct
\* x-coordinates and an odd modulus, for what depends on the order of three
\* and more points.
PermPrimes == {2, 5}

InitPerm ==
    /\ \E mod \in PermPrimes,
          points \in {q \in SeqsUpTo(Points(MaxPermX, MaxPermY), MaxPermPoints) :
                        \A a, b \in 1..Len(q) : a # b => q[a].first # q[b].first} :
          lag = LagEntry(points, mod)
    /\ dec = DecIdle
    /\ run = RunIdle

SpecPerm == InitPerm /\ [][NextLagrange]_vars

\* The modulus of main with x-coordinates at both ends of [1, MOD) and one
\* past MOD, and share values with the residues 1 and MOD - 1.
BigXs == {1, 2, MOD - 2, MOD - 1, MOD + 1}
BigYs == {1, 2 * MOD - 1}

InitBig ==
    /\ \E points \in SeqsUpTo([first : BigXs, second : BigYs], MaxBigPoints) :
          lag = LagEntry(points, MOD)
    /\ dec = DecIdle
    /\ run = RunIdle

SpecBig == InitBig /\ [][NextLagrange]_vars

---------------------------------------------------------------------------
(* Vocabulary of the properties.                                           *)

Min(a, b) == IF a < b THEN a ELSE b

Returned == lag.pc = "done"

\* The x-coordinates are pairwise distinct integers.
DistinctX(points) ==
    \A a, b \in 1..Len(points) : a # b => points[a].first # points[b].first

\* The x-coordinates are pairwise distinct as elements of the field.
DistinctModX(points, mod) ==
    \A a, b \in 1..Len(points) : a # b => points[a].first % mod # points[b].first % mod

\* Every x-coordinate is positive and does not exceed the modulus.
XWithin(points, mod) ==
    \A a \in 1..Len(points) : points[a].first >= 1 /\ points[a].first <= mod

\* Every x-coordinate lies in [1, modulus).
XBelow(points, mod) ==
    \A a \in 1..Len(points) : points[a].first >= 1 /\ points[a].first < mod

RECURSIVE PolyFrom(_, _, _)
PolyFrom(c, x, n) == IF n > Len(c) THEN 0 ELSE c[n] + x * PolyFrom(c, x, n + 1)

\* f(x) for f with the coefficients c[1] (constant term), c[2], ...
PolyEval(c, x) == PolyFrom(c, x, 1)

\* The coefficient vectors of the polynomials of degree below k.
Coefs(k, mod) == [1..k -> 0..Min(mod - 1, MaxCoef)]

\* Every point is (x, f(x) mod modulus).
SampledFrom(c, points, mod) ==
    \A a \in 1..Len(points) : points[a].second = PolyEval(c, points[a].first) % mod

PermsOf(k) == {p \in [1..k -> 1..k] : \A a, b \in 1..k : a # b => p[a] # p[b]}

Permuted(points, p) == [a \in 1..Len(points) |-> points[p[a]]]

\* The residue of a * b in [0, m).
Residue(a, b, m) == (LLRem(LLProd(a, b), m) + m) % m

\* Digit values as the spec lists them: '0'-'9' are 0-9, 'a'-'z' and 'A'-'Z'
\* are 10-35.
LowerDigits == [v \in 0..35 |-> IF v < 10 THEN 48 + v ELSE 97 + (v - 10)]
UpperDigits == [v \in 0..35 |-> IF v < 10 THEN 48 + v ELSE 65 + (v - 10)]

IsDigitChar(ch) == \E v \in 0..35 : LowerDigits[v] = ch \/ UpperDigits[v] = ch

DigitValueOf(ch) == CHOOSE v \in 0..35 : LowerDigits[v] = ch \/ UpperDigits[v] = ch

ValidDigits(s, base) ==
    \A n \in 1..Len(s) : IsDigitChar(s[n]) /\ DigitValueOf(s[n]) < base

RECURSIVE Pow(_, _)
Pow(b, e) == IF e = 0 THEN 1 ELSE b * Pow(b, e - 1)

RECURSIVE PositionalFrom(_, _, _)
PositionalFrom(s, base, n) ==
    IF n > Len(s) THEN 0
    ELSE DigitValueOf(s[n]) * Pow(base, Len(s) - n) + PositionalFrom(s, base, n + 1)

\* sum of d_i * base^(n - 1 - i) over the digits d_0 .. d_(n-1).
PositionalValue(s, base) == PositionalFrom(s, base, 1)

---------------------------------------------------------------------------
(* The properties.                                                         *)

\* C1 as stated (round trip): for every polynomial f of degree k - 1 with
\* coefficients in [0, modulus) and every k points (x_i, f(x_i) mod modulus)
\* with pairwise distinct x-coordinates, lagrangeInterpolation returns f(0)
\* mod modulus; the points (1,4), (2,7), (3,12) with modulus 1,000,000,007
\* give 1.
C1_RoundTripAsStated ==
    (Returned /\ lag.k >= 1 /\ DistinctX(lag.points))
        => /\ \A c \in Coefs(lag.k, lag.mod) :
                 SampledFrom(c, lag.points, lag.mod) => lag.secret = c[1]
           /\ (lag.points = E2EPoints /\ lag.mod = MOD) => lag.secret = 1

\* C1 as amended: the same round trip for pairwise distinct x-coordinates in
\* [1, modulus]; the points (1,4), (2,7), (3,12), which lie on x^2 + 3, give 3.
C1_RoundTrip ==
    (Returned /\ lag.k >= 1 /\ DistinctX(lag.points) /\ XWithin(lag.points, lag.mod))
        => /\ \A c \in Coefs(lag.k, lag.mod) :
                 SampledFrom(c, lag.points, lag.mod) => lag.secret = c[1]
           /\ (lag.points = E2EPoints /\ lag.mod = MOD) => lag.secret = 3

\* The end-to-end points have been interpolated: they are samples of
\* 3 + 0x + x^2 and the call returned its constant term.
C1_Witness ==
    /\ Returned /\ lag.points = E2EPoints /\ lag.mod = MOD
    /\ SampledFrom(<<3, 0, 1>>, lag.points, lag.mod)
    /\ lag.secret = 3

\* C2 (base decoding): for digits that are all valid in the base, the call
\* returns the positional value of the string, most significant digit first,
\* upper- and lower-case letters counting alike.
C2_DecodesPositionalValue ==
    (dec.pc = "done" /\ ValidDigits(dec.s, dec.base))
        => dec.result = PositionalValue(dec.s, dec.base)

\* A string of full length with an upper-case letter digit and different
\* first and last digits has been decoded.
C2_Witness ==
    /\ dec.pc = "done" /\ ValidDigits(dec.s, dec.base)
    /\ Len(dec.s) = MaxLen
    /\ \E n \in 1..Len(dec.s) : dec.s[n] >= 65 /\ dec.s[n] <= 90
    /\ DigitValueOf(dec.s[1]) # DigitValueOf(dec.s[Len(dec.s)])

\* C3 (degenerate rejection): a call whose points hold two equal
\* x-coordinates never returns a value.
C3_DegenerateRejected ==
    (\E a, b \in 1..lag.k : a # b /\ lag.points[a].first = lag.points[b].first)
        => ~Returned

\* C4 (invalid digit rejection): a call whose string holds a character that
\* is no digit of the base never returns a value.
C4_InvalidDigitRejected ==
    (dec.pc # "idle" /\ ~ValidDigits(dec.s, dec.base)) => dec.pc # "done"

\* C5 as stated (result range): for positive x-coordinates, whether or not
\* below the modulus, secret is in [0, modulus) after every iteration of the
\* outer loop and on return.
C5_ResultRangeAsStated ==
    lag.pc \in {"outer", "done"} => (lag.secret >= 0 /\ lag.secret < lag.mod)

\* C5 as amended: the same for positive x-coordinates that do not exceed the
\* modulus.
C5_ResultRange ==
    (lag.pc \in {"outer", "done"} /\ XWithin(lag.points, lag.mod))
        => (lag.secret >= 0 /\ lag.secret < lag.mod)

\* Two points within the modulus have been interpolated to a non-zero secret
\* that the last addition wrapped around the modulus.
C5_Witness ==
    /\ Returned /\ lag.k = 2 /\ XWithin(lag.points, lag.mod)
    /\ lag.secret # 0 /\ lag.secret < lag.term

\* C6 as stated (order independence): for pairwise distinct x-coordinates,
\* every permutation of the points yields the same secret.
C6_OrderIndependentAsStated ==
    (Returned /\ DistinctX(lag.points))
        => \A p \in PermsOf(lag.k) :
              lagrangeInterpolation(Permuted(lag.points, p), lag.mod) = lag.secret

\* C6 as amended: the same for pairwise distinct x-coordinates in
\* [1, modulus].
C6_OrderIndependent ==
    (Returned /\ DistinctX(lag.points) /\ XWithin(lag.points, lag.mod))
        => \A p \in PermsOf(lag.k) :
              lagrangeInterpolation(Permuted(lag.points, p), lag.mod) = lag.secret

\* Three points with different share values have been interpolated to a
\* non-zero secret.
C6_Witness ==
    /\ Returned /\ lag.k = 3
    /\ DistinctX(lag.points) /\ XWithin(lag.points, lag.mod)
    /\ lag.points[1].second # lag.points[2].second
    /\ lag.secret # 0

\* C7 (k = 1): for a single point (x, y) the call finds num = den = 1 and the
\* inverse 1, and returns y mod modulus whatever x is.
C7_SinglePoint ==
    /\ (lag.pc = "term" /\ lag.k = 1) => (lag.num = 1 /\ lag.den = 1 /\ lag.inv = 1)
    /\ (Returned /\ lag.k = 1) => lag.secret = lag.points[1].second % lag.mod

\* A single point with y and x above the modulus has been interpolated.
C7_Witness ==
    /\ Returned /\ lag.k = 1
    /\ lag.points[1].second > lag.mod /\ lag.points[1].first > lag.mod
    /\ lag.secret # 0

\* C8 (per-case isolation): when main has ended, by return or by abort, every
\* case file that opens, parses and holds its k shares has had its secret
\* printed, whatever happened to the files before it.
C8_PerCaseIsolation ==
    run.pc \in {"exit0", "aborted"}
        => \A f \in 1..Len(run.argv) :
              (run.argv[f].opens /\ ~CaseThrows(run.argv[f]))
                  => \E n \in 1..Len(run.out) : run.out[n].file = f

\* C9 as stated (inverse validity): when the x-coordinates are pairwise
\* distinct integers, den is non-zero and den * inv is 1 modulo the modulus.
C9_InverseValidAsStated ==
    (lag.pc = "term" /\ DistinctX(lag.points))
        => (lag.den # 0 /\ Residue(lag.den, lag.inv, lag.mod) = 1)

\* C9 as amended: the same when the x-coordinates are pairwise distinct
\* modulo the modulus.
C9_InverseValid ==
    (lag.pc = "term" /\ DistinctModX(lag.points, lag.mod))
        => (lag.den # 0 /\ Residue(lag.den, lag.inv, lag.mod) = 1)

\* The inverse of a denominator other than 1 and -1 has been computed for
\* points that are distinct modulo 5, one of them above the modulus.
C9_Witness ==
    /\ lag.pc = "term" /\ lag.k >= 2 /\ lag.mod = 5
    /\ DistinctModX(lag.points, lag.mod)
    /\ \E a \in 1..lag.k : lag.points[a].first > lag.mod
    /\ lag.den \notin {-1, 0, 1}

\* C10 (no overflow): with the modulus 1,000,000,007 and x-coordinates in
\* [1, modulus), every product and sum a step forms is non-negative and
\* below 2^63, and no step is undefined.
C10_NoOverflow ==
    (lag.pc # "idle" /\ lag.mod = MOD /\ XBelow(lag.points, lag.mod))
        => /\ lag.pc # "ub"
           /\ \A q \in 1..Len(lag.prods) :
                 ~lag.prods[q].neg /\ LimbLess(lag.prods[q].mag, TwoPow63)

\* A step has formed a product above 2 * 10^18 from x-coordinates in
\* [1, modulus).
C10_Witness ==
    /\ lag.pc # "idle" /\ lag.mod = MOD /\ XBelow(lag.points, lag.mod)
    /\ \E q \in 1..Len(lag.prods) : LimbLess(<<0, 0, 0, 0, 200>>, lag.prods[q].mag)

=============================================================================
